---- MODULE Spec2Model ----
(***************************************************************************)
(* The cache-first RAG pipeline of the Cosmos DB demo notebooks.           *)
(*                                                                         *)
(*   Spec          chat_completion of AzureCosmosDBforNoSQL/               *)
(*                 cosmos-nosql-demos (the second, effective definition),  *)
(*                 run by two callers at once against one cache container. *)
(*   SpecAnyOrder  the same, the two reads of the miss path in either      *)
(*                 order.                                                  *)
(*   SpecLoop      the interactive input() loop of cosmos-demos.ipynb      *)
(*                 (Cosmos DB for MongoDB vCore).                          *)
(*   SpecSetup     that loop next to the setup notebook's database cell.   *)
(*   SpecSearch    vector_search of both notebooks, called directly.       *)
(*   SpecHistory   cache_response and get_chat_history, cache_generation   *)
(*                 and get_conversation_history, called directly.          *)
(*                                                                         *)
(* Embedding vectors are abstracted to integer points; VectorDistance is   *)
(* a similarity in thousandths (1000 = identical), so 0.99 is 990 and      *)
(* 0.02 is 20.  Every call to an external service either returns or        *)
(* raises; the notebooks catch nothing, so a raise ends the request.       *)
(* A caller's pc names the call it is about to make.                       *)
(***************************************************************************)
EXTENDS Integers, Sequences, FiniteSets, TLC

\* ------------------------------------------------------------------ bounds
\* requests issued in one run
MaxRequests == 3
\* lines typed into the interactive loop in one session
MaxInputs == 3
\* documents loaded into the searched store
MaxDocs == 3
\* exchanges stored by direct calls of cache_response
MaxStored == 4

\* ------------------------------------------------------- program constants
\* similarity_score=0.99 of the cache probe, in thousandths
CacheHitThreshold == 990
\* num_results=1 of the cache probe
CacheProbeLimit == 1
\* similarity_score=0.02, the default of vector_search, in thousandths
ContextThreshold == 20
\* num_results=5, the default of vector_search
ContextLimit == 5
\* get_chat_history(cache_container, 3)
HistoryLimit == 3

\* stop_after_attempt(20) on generate_embeddings of the setup notebook
SetupMaxAttempts == 20

\* the callers that may be inside chat_completion at the same time
Threads == {1, 2}

\* ------------------------------------------------------------ environment
\* The user utterances of a run.  p0 and p1 are near-duplicates of each
\* other, as are p1 and p2; p0 and p2 sit exactly on the cache-hit
\* threshold.
Prompts == {"p0", "p1", "p2"}

\* generate_embeddings: the Embedding Provider is a deterministic function of
\* the text (one model, one dimension)
EmbedOf(text) ==
    CASE text = "p0" -> 0
      [] text = "p1" -> 1
      [] text = "p2" -> 2
      [] OTHER -> 500

Abs(n) == IF n < 0 THEN 0 - n ELSE n

\* VectorDistance(c.vector, @embedding): cosine-like similarity, higher is
\* more similar, 1000 for identical vectors
VectorDistance(a, b) == 1000 - 5 * Abs(a - b)

\* the movies container: loaded once by the setup notebook, read-only here
Movies ==
    << [overview |-> "m1", vector |-> 10],
       [overview |-> "m2", vector |-> 20],
       [overview |-> "m3", vector |-> 30],
       [overview |-> "m4", vector |-> 40],
       [overview |-> "m5", vector |-> 196],
       [overview |-> "m6", vector |-> 197] >>

\* what the Completion Provider may answer (response.model_dump())
Responses ==
    { [content |-> "A", model |-> "gpt",
       usage |-> [completion_tokens |-> 7, prompt_tokens |-> 12, total_tokens |-> 19]],
      [content |-> "B", model |-> "gpt",
       usage |-> [completion_tokens |-> 0, prompt_tokens |-> 9, total_tokens |-> 9]] }

\* ---------------------------------------------------------------- helpers
\* str() of a non-negative integer
Digit(d) ==
    CASE d = 0 -> "0" [] d = 1 -> "1" [] d = 2 -> "2" [] d = 3 -> "3"
      [] d = 4 -> "4" [] d = 5 -> "5" [] d = 6 -> "6" [] d = 7 -> "7"
      [] d = 8 -> "8" [] OTHER -> "9"

\* str() keeping the last digit only
StrUnits(n) == Digit(n % 10)

RECURSIVE Str(_)
Str(n) == IF n < 10 THEN Digit(n) ELSE Str(n \div 10) \o Digit(n % 10)

\* the elements of a list
Range(s) == {s[i] : i \in 1..Len(s)}

\* SELECT TOP n ... ORDER BY <score>, most similar / newest first: every
\* list of min(n, |P|) pairs <<score, index>> of P in non-increasing score
\* order that leaves out no pair with a higher score; the store breaks ties
\* as it likes.
RECURSIVE TopRanked(_, _)
TopRanked(P, n) ==
    IF n = 0 \/ P = {}
    THEN { <<>> }
    ELSE UNION { { <<p>> \o t : t \in TopRanked(P \ {p}, n - 1) } :
                 p \in {q \in P : \A o \in P : o[1] <= q[1]} }

\* ------------------------------------- cosmos-nosql-demos: the functions
\* get_cache without its ORDER BY: any num_results of the matching items
GetCacheUnordered(container, vectors, similarity_score, num_results) ==
    LET hits == {i \in 1..Len(container) :
                   VectorDistance(container[i].vector, vectors) > similarity_score}
        ranked == TopRanked({<<0, i>> : i \in hits}, num_results)
    IN  { [k \in 1..Len(s) |-> container[s[k][2]]] : s \in ranked }

\* get_cache reading VectorDistance as a distance: WHERE ... < @similarity_score
GetCacheAsDistance(container, vectors, similarity_score, num_results) ==
    LET hits == {i \in 1..Len(container) :
                   VectorDistance(container[i].vector, vectors) < similarity_score}
        ranked == TopRanked({<<VectorDistance(container[i].vector, vectors), i>> : i \in hits},
                            num_results)
    IN  { [k \in 1..Len(s) |-> container[s[k][2]]] : s \in ranked }

\* get_cache with an inclusive threshold: WHERE ... >= @similarity_score
GetCacheInclusive(container, vectors, similarity_score, num_results) ==
    LET hits == {i \in 1..Len(container) :
                   VectorDistance(container[i].vector, vectors) >= similarity_score}
        ranked == TopRanked({<<VectorDistance(container[i].vector, vectors), i>> : i \in hits},
                            num_results)
    IN  { [k \in 1..Len(s) |-> container[s[k][2]]] : s \in ranked }

\* get_cache: SELECT TOP @num_results * FROM c
\*            WHERE VectorDistance(c.vector,@embedding) > @similarity_score
\*            ORDER BY VectorDistance(c.vector,@embedding)
\* The set of lists the store may return (ties in any order).
GetCache(container, vectors, similarity_score, num_results) ==
    LET hits == {i \in 1..Len(container) :
                   VectorDistance(container[i].vector, vectors) > similarity_score}
        ranked == TopRanked({<<VectorDistance(container[i].vector, vectors), i>> : i \in hits},
                            num_results)
    IN  { [k \in 1..Len(s) |-> container[s[k][2]]] : s \in ranked }

\* vector_search without its ORDER BY: any num_results of the matching rows
VectorSearchUnordered(container, vectors, similarity_score, num_results) ==
    LET hits == {i \in 1..Len(container) :
                   VectorDistance(container[i].vector, vectors) > similarity_score}
        ranked == TopRanked({<<0, i>> : i \in hits}, num_results)
    IN  { [k \in 1..Len(s) |->
             [SimilarityScore |-> VectorDistance(container[s[k][2]].vector, vectors),
              document |-> [overview |-> container[s[k][2]].overview]]] : s \in ranked }

\* vector_search: SELECT TOP @num_results c.overview, VectorDistance(..) as
\* SimilarityScore ... WHERE VectorDistance(..) > @similarity_score ORDER BY
\* VectorDistance(..); each row is reshaped to {SimilarityScore, document}
VectorSearch(container, vectors, similarity_score, num_results) ==
    LET hits == {i \in 1..Len(container) :
                   VectorDistance(container[i].vector, vectors) > similarity_score}
        ranked == TopRanked({<<VectorDistance(container[i].vector, vectors), i>> : i \in hits},
                            num_results)
    IN  { [k \in 1..Len(s) |->
             [SimilarityScore |-> s[k][1],
              document |-> [overview |-> container[s[k][2]].overview]]] : s \in ranked }

\* get_chat_history: SELECT TOP @completions * FROM c ORDER BY c._ts DESC
GetChatHistory(container, completions) ==
    LET ranked == TopRanked({<<container[i].ts, i>> : i \in 1..Len(container)}, completions)
    IN  { [k \in 1..Len(s) |-> container[s[k][2]]] : s \in ranked }

SystemPrompt == "You are an intelligent assistant for movies."

\* json.dumps(result['document'])
JsonDumps(document) == "{\"overview\": \"" \o document.overview \o "\"}"

\* generate_completion appending the user prompt after the search results
MessagesQueryLast(user_prompt, vector_search_results, history) ==
    << [role |-> "system", content |-> SystemPrompt] >>
    \o [i \in 1..Len(history) |->
          [role |-> "user", content |-> history[i].prompt \o " " \o history[i].completion]]
    \o [i \in 1..Len(vector_search_results) |->
          [role |-> "system", content |-> JsonDumps(vector_search_results[i].document)]]
    \o << [role |-> "user", content |-> user_prompt] >>

\* generate_completion: the messages payload sent to the Completion Provider
Messages(user_prompt, vector_search_results, history) ==
    << [role |-> "system", content |-> SystemPrompt] >>
    \o [i \in 1..Len(history) |->
          [role |-> "user", content |-> history[i].prompt \o " " \o history[i].completion]]
    \o << [role |-> "user", content |-> user_prompt] >>
    \o [i \in 1..Len(vector_search_results) |->
          [role |-> "system", content |-> JsonDumps(vector_search_results[i].document)]]

\* cache_response with prompt and completion swapped
ChatDocumentSwapped(id, user_prompt, prompt_vectors, response) ==
    [id |-> id,
     prompt |-> response.content,
     completion |-> user_prompt,
     completionTokens |-> Str(response.usage.completion_tokens),
     promptTokens |-> Str(response.usage.prompt_tokens),
     totalTokens |-> Str(response.usage.total_tokens),
     model |-> response.model,
     vector |-> prompt_vectors]

\* cache_response: the chat_document dictionary
ChatDocument(id, user_prompt, prompt_vectors, response) ==
    [id |-> id,
     prompt |-> user_prompt,
     completion |-> response.content,
     completionTokens |-> Str(response.usage.completion_tokens),
     promptTokens |-> Str(response.usage.prompt_tokens),
     totalTokens |-> Str(response.usage.total_tokens),
     model |-> response.model,
     vector |-> prompt_vectors]

\* create_item on a store that keeps one item per prompt
CreateItemDedup(container, body, now) ==
    IF \E i \in 1..Len(container) : container[i].prompt = body.prompt
    THEN container
    ELSE Append(container, body @@ [ts |-> now])

\* container.create_item(body=...): the store appends the item and stamps _ts
CreateItem(container, body, now) == Append(container, body @@ [ts |-> now])

\* chat_completion: `if len(cache_results) > 0`
CacheHit(results) == Len(results) > 0

\* chat_completion: what it returns on a hit, and on a miss
HitAnswer(results) == [returned |-> TRUE, text |-> results[1].completion, cached |-> TRUE]

MissAnswer(response) == [returned |-> TRUE, text |-> response.content, cached |-> FALSE]

NoAnswer == [returned |-> FALSE, text |-> "", cached |-> FALSE]

NoResponse == [content |-> "", model |-> "",
               usage |-> [completion_tokens |-> 0, prompt_tokens |-> 0, total_tokens |-> 0]]

\* chat_completion fetching the history before the context search
AfterCallHistoryFirst(call, hit) ==
    CASE call = "embed" -> "probe"
      [] call = "probe" -> IF hit THEN "done" ELSE "history"
      [] call = "history" -> "search"
      [] call = "search" -> "complete"
      [] call = "complete" -> "cache_write"
      [] OTHER -> "done"

\* chat_completion with the else branch lost: a miss returns at once
AfterCallNoMissPath(call, hit) ==
    CASE call = "embed" -> "probe"
      [] call = "probe" -> "done"
      [] call = "search" -> "history"
      [] call = "history" -> "complete"
      [] call = "complete" -> "cache_write"
      [] OTHER -> "done"

\* chat_completion's control flow: the call that follows `call` once it has
\* returned (pc names the call a request is about to make)
AfterCall(call, hit) ==
    CASE call = "embed" -> "probe"
      [] call = "probe" -> IF hit THEN "done" ELSE "search"
      [] call = "search" -> "history"
      [] call = "history" -> "complete"
      [] call = "complete" -> "cache_write"
      [] OTHER -> "done"

\* chat_completion catching the exception and carrying on with the next call
OnRaiseSwallowed(call) == AfterCall(call, FALSE)

\* chat_completion has no try/except: an exception raised by `call` leaves it
OnRaise(call) == "failed"

\* the external calls of one request, in the order chat_completion makes them
CallOrder == << "embed", "probe", "search", "history", "complete", "cache_write" >>

\* --------------------------------------------- cosmos-demos: the functions
\* the Azure-services collection the Mongo notebook searches (read-only here)
AzureDocs ==
    << [title |-> "t1", content |-> "c1", contentVector |-> 10],
       [title |-> "t2", content |-> "c2", contentVector |-> 20],
       [title |-> "t3", content |-> "c3", contentVector |-> 30],
       [title |-> "t4", content |-> "c4", contentVector |-> 40] >>

\* num_results=3, the default of the Mongo vector_search
MongoSearchLimit == 3
\* get_conversation_history(3)
MongoHistoryLimit == 3

\* what may be typed at the prompt
LoopInputs == Prompts \cup {"end", "End", "END"}

\* the loop test without .lower()
LowerSkipped(text) == text

\* str.lower(), on the inputs above
Lower(text) == IF text \in {"end", "End", "END"} THEN "end" ELSE text

\* vector_search (Mongo): $search cosmosSearch with k = num_results, projected
\* to {similarityScore, document}; no similarity threshold
MongoVectorSearch(collection, query, num_results) ==
    LET ranked == TopRanked({<<VectorDistance(collection[i].contentVector, query), i>> :
                               i \in 1..Len(collection)}, num_results)
    IN  { [k \in 1..Len(s) |->
             [similarityScore |-> s[k][1], document |-> collection[s[k][2]]]] : s \in ranked }

\* get_conversation_history: cache.find({}, {prompt, completion}).sort(_id, -1).limit(n)
GetConversationHistory(collection, completions) ==
    LET ranked == TopRanked({<<collection[i].oid, i>> : i \in 1..Len(collection)}, completions)
    IN  { [k \in 1..Len(s) |->
             [oid |-> collection[s[k][2]].oid,
              prompt |-> collection[s[k][2]].prompt,
              completion |-> collection[s[k][2]].completion]] : s \in ranked }

MongoSystemPrompt == "You are an intelligent assistant for Microsoft Azure services."

\* generate_completion (Mongo): the messages payload
MongoMessages(vector_search_results, user_prompt, history) ==
    << [role |-> "system", content |-> MongoSystemPrompt] >>
    \o [i \in 1..Len(history) |->
          [role |-> "system", content |-> history[i].prompt \o " " \o history[i].completion]]
    \o << [role |-> "user", content |-> user_prompt] >>
    \o [i \in 1..Len(vector_search_results) |->
          [role |-> "system", content |-> vector_search_results[i].document.content]]

\* cache_generation that skips a prompt the collection already holds
CacheGenerationDedup(collection, user_prompt, embeddings, response) ==
    IF \E i \in 1..Len(collection) : collection[i].prompt = user_prompt
    THEN collection
    ELSE Append(collection,
                [oid |-> Len(collection) + 1,
                 prompt |-> user_prompt,
                 completion |-> response.content,
                 completionTokens |-> Str(response.usage.completion_tokens),
                 promptTokens |-> Str(response.usage.prompt_tokens),
                 totalTokens |-> Str(response.usage.total_tokens),
                 model |-> response.model,
                 vectorContent |-> embeddings])

\* cache_generation as an upsert on the prompt: replace_one(.., upsert=True)
CacheGenerationUpsert(collection, user_prompt, embeddings, response) ==
    IF \E i \in 1..Len(collection) : collection[i].prompt = user_prompt
    THEN [i \in 1..Len(collection) |->
            IF collection[i].prompt = user_prompt
            THEN [collection[i] EXCEPT !.completion = response.content,
                                       !.completionTokens = Str(response.usage.completion_tokens),
                                       !.promptTokens = Str(response.usage.prompt_tokens),
                                       !.totalTokens = Str(response.usage.total_tokens)]
            ELSE collection[i]]
    ELSE Append(collection,
                [oid |-> Len(collection) + 1,
                 prompt |-> user_prompt,
                 completion |-> response.content,
                 completionTokens |-> Str(response.usage.completion_tokens),
                 promptTokens |-> Str(response.usage.prompt_tokens),
                 totalTokens |-> Str(response.usage.total_tokens),
                 model |-> response.model,
                 vectorContent |-> embeddings])

\* cache_generation: cache.insert_one(chat[0]); the driver assigns the next _id
CacheGeneration(collection, user_prompt, embeddings, response) ==
    Append(collection,
           [oid |-> Len(collection) + 1,
            prompt |-> user_prompt,
            completion |-> response.content,
            completionTokens |-> Str(response.usage.completion_tokens),
            promptTokens |-> Str(response.usage.prompt_tokens),
            totalTokens |-> Str(response.usage.total_tokens),
            model |-> response.model,
            vectorContent |-> embeddings])

\* ------------------------------------------------------------------ state
VARIABLES
    cache,               \* the cache container: the list of stored exchanges
    clock,               \* the store's _ts clock at the latest insert
    uuids,               \* uuid4() values stored so far
    started,             \* requests issued so far
    providerCalls,       \* chat.completions.create calls made so far
    pc,                  \* per caller: where it is inside chat_completion
    user_input,          \* per caller: chat_completion's argument
    user_embeddings,     \* per caller: local of chat_completion
    cache_results,       \* per caller: local of chat_completion
    search_results,      \* per caller: local of chat_completion
    chat_history,        \* per caller: local of chat_completion
    messages,            \* per caller: the payload generate_completion sent
    completions_results, \* per caller: local of chat_completion
    result,              \* per caller: what chat_completion returned
    error,               \* per caller: the call that raised, "" if none
    calls,               \* per caller: the external calls made, in order
    wrote,               \* per caller: ids of the items this request inserted
    startLen,            \* per caller: size of the cache when the request began
    probeLen,            \* per caller: size of the cache when it was probed
    mongo_cache,         \* cosmos-demos: the Mongo cache collection
    loop,                \* cosmos-demos: the interactive loop's position and locals
    docs,                \* the vectors of the documents loaded into the searched store
    ret,                 \* the latest direct call of a query function and its result
    embed_call           \* the latest direct call of generate_embeddings

pipeVars == << cache, clock, uuids, started, providerCalls, pc, user_input,
               user_embeddings, cache_results, search_results, chat_history,
               messages, completions_results, result, error, calls, wrote,
               startLen, probeLen >>

loopVars == << mongo_cache, loop >>

queryVars == << docs, ret, embed_call >>

vars == << pipeVars, loopVars, queryVars >>

locals == << user_embeddings, cache_results, search_results, chat_history,
             messages, completions_results >>

InitPipe ==
    /\ cache = << >>
    /\ clock = 0
    /\ uuids = 0
    /\ started = 0
    /\ providerCalls = 0
    /\ pc = [r \in Threads |-> "idle"]
    /\ user_input = [r \in Threads |-> ""]
    /\ user_embeddings = [r \in Threads |-> 0]
    /\ cache_results = [r \in Threads |-> << >>]
    /\ search_results = [r \in Threads |-> << >>]
    /\ chat_history = [r \in Threads |-> << >>]
    /\ messages = [r \in Threads |-> << >>]
    /\ completions_results = [r \in Threads |-> NoResponse]
    /\ result = [r \in Threads |-> NoAnswer]
    /\ error = [r \in Threads |-> ""]
    /\ calls = [r \in Threads |-> << >>]
    /\ wrote = [r \in Threads |-> {}]
    /\ startLen = [r \in Threads |-> 0]
    /\ probeLen = [r \in Threads |-> 0]

InitLoop ==
    /\ mongo_cache = << >>
    /\ loop = [pc |-> "input", user_input |-> "", user_embeddings |-> 0,
               search_results |-> << >>, messages |-> << >>,
               completions_results |-> NoResponse, printed |-> << >>,
               calls |-> << >>, asked |-> FALSE, inputs |-> 0, answered |-> 0]

NoCall == [fn |-> "none", query |-> 0, threshold |-> 0, limit |-> 0, stored |-> 0,
           value |-> << >>]

InitQueries ==
    /\ docs = << >>
    /\ ret = NoCall
    /\ embed_call = [notebook |-> "", text |-> "", attempts |-> 0, status |-> "idle",
                     value |-> 0]

Init == InitPipe /\ InitLoop /\ InitQueries

\* ---------------------------------------- chat_completion, step by step
\* A caller enters chat_completion(cache_container, movies_container, text) and
\* runs user_embeddings = generate_embeddings(user_input).  Callers are
\* interchangeable, so the lowest free one takes the request; its frame of the
\* previous request is dropped.
GenerateEmbeddings(r, text) ==
    /\ pc[r] \in {"idle", "done", "failed"}
    /\ \A q \in Threads : q < r => pc[q] \notin {"idle", "done", "failed"}
    /\ started < MaxRequests
    /\ started' = started + 1
    /\ user_input' = [user_input EXCEPT ![r] = text]
    /\ startLen' = [startLen EXCEPT ![r] = Len(cache)]
    /\ calls' = [calls EXCEPT ![r] = << "embed" >>]
    /\ user_embeddings' = [user_embeddings EXCEPT ![r] = EmbedOf(text)]
    /\ pc' = [pc EXCEPT ![r] = AfterCall("embed", FALSE)]
    /\ cache_results' = [cache_results EXCEPT ![r] = << >>]
    /\ search_results' = [search_results EXCEPT ![r] = << >>]
    /\ chat_history' = [chat_history EXCEPT ![r] = << >>]
    /\ messages' = [messages EXCEPT ![r] = << >>]
    /\ completions_results' = [completions_results EXCEPT ![r] = NoResponse]
    /\ result' = [result EXCEPT ![r] = NoAnswer]
    /\ error' = [error EXCEPT ![r] = ""]
    /\ wrote' = [wrote EXCEPT ![r] = {}]
    /\ probeLen' = [probeLen EXCEPT ![r] = 0]
    /\ UNCHANGED << cache, clock, uuids, providerCalls, loopVars, queryVars >>

\* the same entry, but openai_client.embeddings.create raises
GenerateEmbeddingsFails(r, text) ==
    /\ pc[r] \in {"idle", "done", "failed"}
    /\ \A q \in Threads : q < r => pc[q] \notin {"idle", "done", "failed"}
    /\ started < MaxRequests
    /\ started' = started + 1
    /\ user_input' = [user_input EXCEPT ![r] = text]
    /\ startLen' = [startLen EXCEPT ![r] = Len(cache)]
    /\ calls' = [calls EXCEPT ![r] = << "embed" >>]
    /\ error' = [error EXCEPT ![r] = "embed"]
    /\ pc' = [pc EXCEPT ![r] = OnRaise("embed")]
    /\ user_embeddings' = [user_embeddings EXCEPT ![r] = 0]
    /\ cache_results' = [cache_results EXCEPT ![r] = << >>]
    /\ search_results' = [search_results EXCEPT ![r] = << >>]
    /\ chat_history' = [chat_history EXCEPT ![r] = << >>]
    /\ messages' = [messages EXCEPT ![r] = << >>]
    /\ completions_results' = [completions_results EXCEPT ![r] = NoResponse]
    /\ result' = [result EXCEPT ![r] = NoAnswer]
    /\ wrote' = [wrote EXCEPT ![r] = {}]
    /\ probeLen' = [probeLen EXCEPT ![r] = 0]
    /\ UNCHANGED << cache, clock, uuids, providerCalls, loopVars, queryVars >>

\* the probe storing the exchange it answers with once more
ProbeCacheRecordsHit(r) ==
    /\ pc[r] = "probe"
    /\ \E res \in GetCache(cache, user_embeddings[r], CacheHitThreshold, CacheProbeLimit) :
          /\ cache_results' = [cache_results EXCEPT ![r] = res]
          /\ result' = IF CacheHit(res) THEN [result EXCEPT ![r] = HitAnswer(res)] ELSE result
          /\ pc' = [pc EXCEPT ![r] = AfterCall("probe", CacheHit(res))]
          /\ cache' = IF CacheHit(res)
                      THEN CreateItem(cache, [res[1] EXCEPT !.id = uuids + 1], clock)
                      ELSE cache
          /\ uuids' = IF CacheHit(res) THEN uuids + 1 ELSE uuids
    /\ calls' = [calls EXCEPT ![r] = Append(@, "probe")]
    /\ probeLen' = [probeLen EXCEPT ![r] = Len(cache)]
    /\ UNCHANGED << clock, started, providerCalls, user_input,
                    user_embeddings, search_results, chat_history, messages,
                    completions_results, error, wrote, startLen, loopVars, queryVars >>

\* cache_results = get_cache(cache_container, user_embeddings, 0.99, 1);
\* on a hit: return cache_results[0]['completion'], True
ProbeCache(r) ==
    /\ pc[r] = "probe"
    /\ \E res \in GetCache(cache, user_embeddings[r], CacheHitThreshold, CacheProbeLimit) :
          /\ cache_results' = [cache_results EXCEPT ![r] = res]
          /\ result' = IF CacheHit(res) THEN [result EXCEPT ![r] = HitAnswer(res)] ELSE result
          /\ pc' = [pc EXCEPT ![r] = AfterCall("probe", CacheHit(res))]
    /\ calls' = [calls EXCEPT ![r] = Append(@, "probe")]
    /\ probeLen' = [probeLen EXCEPT ![r] = Len(cache)]
    /\ UNCHANGED << cache, clock, uuids, started, providerCalls, user_input,
                    user_embeddings, search_results, chat_history, messages,
                    completions_results, error, wrote, startLen, loopVars, queryVars >>

\* cache_container.query_items raises inside get_cache
ProbeCacheFails(r) ==
    /\ pc[r] = "probe"
    /\ calls' = [calls EXCEPT ![r] = Append(@, "probe")]
    /\ error' = [error EXCEPT ![r] = "probe"]
    /\ pc' = [pc EXCEPT ![r] = OnRaise("probe")]
    /\ UNCHANGED << cache, clock, uuids, started, providerCalls, user_input,
                    locals, result, wrote, startLen, probeLen, loopVars, queryVars >>

\* search_results = vector_search(movies_container, user_embeddings)
SearchMovies(r) ==
    /\ pc[r] = "search"
    /\ \E res \in VectorSearch(Movies, user_embeddings[r], ContextThreshold, ContextLimit) :
          search_results' = [search_results EXCEPT ![r] = res]
    /\ calls' = [calls EXCEPT ![r] = Append(@, "search")]
    /\ pc' = [pc EXCEPT ![r] = AfterCall("search", FALSE)]
    /\ UNCHANGED << cache, clock, uuids, started, providerCalls, user_input,
                    user_embeddings, cache_results, chat_history, messages,
                    completions_results, result, error, wrote, startLen,
                    probeLen, loopVars, queryVars >>

\* the failed context search degraded to an empty context: the request goes on
SearchMoviesFailsDegraded(r) ==
    /\ pc[r] = "search"
    /\ calls' = [calls EXCEPT ![r] = Append(@, "search")]
    /\ pc' = [pc EXCEPT ![r] = AfterCall("search", FALSE)]
    /\ UNCHANGED << cache, clock, uuids, started, providerCalls, user_input,
                    locals, result, error, wrote, startLen, probeLen, loopVars, queryVars >>

\* movies_container.query_items raises
SearchMoviesFails(r) ==
    /\ pc[r] = "search"
    /\ calls' = [calls EXCEPT ![r] = Append(@, "search")]
    /\ error' = [error EXCEPT ![r] = "search"]
    /\ pc' = [pc EXCEPT ![r] = OnRaise("search")]
    /\ UNCHANGED << cache, clock, uuids, started, providerCalls, user_input,
                    locals, result, wrote, startLen, probeLen, loopVars, queryVars >>

\* the history read with the exchange of the request itself put in front
FetchHistoryIncludesOwn(r) ==
    /\ pc[r] = "history"
    /\ \E h \in GetChatHistory(cache, HistoryLimit) :
          chat_history' = [chat_history EXCEPT ![r] =
                             << ChatDocument(uuids + 1, user_input[r], user_embeddings[r],
                                             NoResponse) @@ [ts |-> clock] >> \o h]
    /\ calls' = [calls EXCEPT ![r] = Append(@, "history")]
    /\ pc' = [pc EXCEPT ![r] = AfterCall("history", FALSE)]
    /\ UNCHANGED << cache, clock, uuids, started, providerCalls, user_input,
                    user_embeddings, cache_results, search_results, messages,
                    completions_results, result, error, wrote, startLen,
                    probeLen, loopVars, queryVars >>

\* chat_history = get_chat_history(cache_container, 3)
FetchHistory(r) ==
    /\ pc[r] = "history"
    /\ \E h \in GetChatHistory(cache, HistoryLimit) :
          chat_history' = [chat_history EXCEPT ![r] = h]
    /\ calls' = [calls EXCEPT ![r] = Append(@, "history")]
    /\ pc' = [pc EXCEPT ![r] = AfterCall("history", FALSE)]
    /\ UNCHANGED << cache, clock, uuids, started, providerCalls, user_input,
                    user_embeddings, cache_results, search_results, messages,
                    completions_results, result, error, wrote, startLen,
                    probeLen, loopVars, queryVars >>

\* cache_container.query_items raises inside get_chat_history
FetchHistoryFails(r) ==
    /\ pc[r] = "history"
    /\ calls' = [calls EXCEPT ![r] = Append(@, "history")]
    /\ error' = [error EXCEPT ![r] = "history"]
    /\ pc' = [pc EXCEPT ![r] = OnRaise("history")]
    /\ UNCHANGED << cache, clock, uuids, started, providerCalls, user_input,
                    locals, result, wrote, startLen, probeLen, loopVars, queryVars >>

\* generate_completion leaving its response in a variable all callers share
GenerateCompletionShared(r) ==
    /\ pc[r] = "complete"
    /\ messages' = [messages EXCEPT ![r] =
                      Messages(user_input[r], search_results[r], chat_history[r])]
    /\ \E response \in Responses :
          completions_results' = [q \in Threads |-> response]
    /\ providerCalls' = providerCalls + 1
    /\ calls' = [calls EXCEPT ![r] = Append(@, "complete")]
    /\ pc' = [pc EXCEPT ![r] = AfterCall("complete", FALSE)]
    /\ UNCHANGED << cache, clock, uuids, started, user_input, user_embeddings,
                    cache_results, search_results, chat_history, result, error,
                    wrote, startLen, probeLen, loopVars, queryVars >>

\* completions_results = generate_completion(user_input, search_results, chat_history)
GenerateCompletion(r) ==
    /\ pc[r] = "complete"
    /\ messages' = [messages EXCEPT ![r] =
                      Messages(user_input[r], search_results[r], chat_history[r])]
    /\ \E response \in Responses :
          completions_results' = [completions_results EXCEPT ![r] = response]
    /\ providerCalls' = providerCalls + 1
    /\ calls' = [calls EXCEPT ![r] = Append(@, "complete")]
    /\ pc' = [pc EXCEPT ![r] = AfterCall("complete", FALSE)]
    /\ UNCHANGED << cache, clock, uuids, started, user_input, user_embeddings,
                    cache_results, search_results, chat_history, result, error,
                    wrote, startLen, probeLen, loopVars, queryVars >>

\* the failed completion stored in the cache as an empty exchange
GenerateCompletionFailsCached(r) ==
    /\ pc[r] = "complete"
    /\ messages' = [messages EXCEPT ![r] =
                      Messages(user_input[r], search_results[r], chat_history[r])]
    /\ providerCalls' = providerCalls + 1
    /\ calls' = [calls EXCEPT ![r] = Append(@, "complete")]
    /\ error' = [error EXCEPT ![r] = "complete"]
    /\ pc' = [pc EXCEPT ![r] = OnRaise("complete")]
    /\ cache' = CreateItem(cache,
                           ChatDocument(uuids + 1, user_input[r], user_embeddings[r],
                                        completions_results[r]),
                           clock)
    /\ uuids' = uuids + 1
    /\ UNCHANGED << clock, started, user_input, user_embeddings,
                    cache_results, search_results, chat_history,
                    completions_results, result, wrote, startLen, probeLen,
                    loopVars, queryVars >>

\* openai_client.chat.completions.create raises
GenerateCompletionFails(r) ==
    /\ pc[r] = "complete"
    /\ messages' = [messages EXCEPT ![r] =
                      Messages(user_input[r], search_results[r], chat_history[r])]
    /\ providerCalls' = providerCalls + 1
    /\ calls' = [calls EXCEPT ![r] = Append(@, "complete")]
    /\ error' = [error EXCEPT ![r] = "complete"]
    /\ pc' = [pc EXCEPT ![r] = OnRaise("complete")]
    /\ UNCHANGED << cache, clock, uuids, started, user_input, user_embeddings,
                    cache_results, search_results, chat_history,
                    completions_results, result, wrote, startLen, probeLen,
                    loopVars, queryVars >>

\* chat_completion returning the text at once, the cache write left for later
CacheResponseDeferred(r) ==
    /\ pc[r] = "cache_write"
    /\ calls' = [calls EXCEPT ![r] = Append(@, "cache_write")]
    /\ result' = [result EXCEPT ![r] = MissAnswer(completions_results[r])]
    /\ pc' = [pc EXCEPT ![r] = AfterCall("cache_write", FALSE)]
    /\ UNCHANGED << cache, clock, uuids, started, providerCalls, user_input, locals,
                    error, wrote, startLen, probeLen, loopVars, queryVars >>

\* cache_response(cache_container, user_input, user_embeddings, completions_results),
\* the store stamping the item with its clock (the second of the previous
\* insert, or a later one);
\* return completions_results['choices'][0]['message']['content'], False
CacheResponse(r) ==
    /\ pc[r] = "cache_write"
    /\ \E now \in {clock, clock + 1} :
          /\ cache' = CreateItem(cache,
                                 ChatDocument(uuids + 1, user_input[r], user_embeddings[r],
                                              completions_results[r]),
                                 now)
          /\ clock' = now
    /\ uuids' = uuids + 1
    /\ wrote' = [wrote EXCEPT ![r] = @ \cup {uuids + 1}]
    /\ calls' = [calls EXCEPT ![r] = Append(@, "cache_write")]
    /\ result' = [result EXCEPT ![r] = MissAnswer(completions_results[r])]
    /\ pc' = [pc EXCEPT ![r] = AfterCall("cache_write", FALSE)]
    /\ UNCHANGED << started, providerCalls, user_input, locals, error,
                    startLen, probeLen, loopVars, queryVars >>

\* container.create_item raises: the exception leaves chat_completion
CacheResponseFails(r) ==
    /\ pc[r] = "cache_write"
    /\ calls' = [calls EXCEPT ![r] = Append(@, "cache_write")]
    /\ error' = [error EXCEPT ![r] = "cache_write"]
    /\ pc' = [pc EXCEPT ![r] = OnRaise("cache_write")]
    /\ UNCHANGED << cache, clock, uuids, started, providerCalls, user_input,
                    locals, result, wrote, startLen, probeLen, loopVars, queryVars >>

Next ==
    \/ \E r \in Threads, text \in Prompts : GenerateEmbeddings(r, text)
    \/ \E r \in Threads, text \in Prompts : GenerateEmbeddingsFails(r, text)
    \/ \E r \in Threads : ProbeCache(r)
    \/ \E r \in Threads : ProbeCacheFails(r)
    \/ \E r \in Threads : SearchMovies(r)
    \/ \E r \in Threads : SearchMoviesFails(r)
    \/ \E r \in Threads : FetchHistory(r)
    \/ \E r \in Threads : FetchHistoryFails(r)
    \/ \E r \in Threads : GenerateCompletion(r)
    \/ \E r \in Threads : GenerateCompletionFails(r)
    \/ \E r \in Threads : CacheResponse(r)
    \/ \E r \in Threads : CacheResponseFails(r)

Spec == Init /\ [][Next]_vars

\* ------------------------------------- cosmos-demos: the interactive loop
\* user_input = input("Prompt: ") and the test `user_input.lower() != "end"`
ReadInput(text) ==
    /\ loop.pc = "input"
    /\ loop.inputs < MaxInputs
    /\ loop' = [loop EXCEPT !.user_input = text,
                            !.inputs = @ + 1,
                            !.calls = << >>,
                            !.asked = \E i \in 1..Len(mongo_cache) : mongo_cache[i].prompt = text,
                            !.pc = IF Lower(text) # "end" THEN "embed" ELSE "ended"]
    /\ UNCHANGED << mongo_cache, pipeVars, queryVars >>

\* user_embeddings = generate_embeddings(user_input)
LoopEmbeddings ==
    /\ loop.pc = "embed"
    /\ loop' = [loop EXCEPT !.user_embeddings = EmbedOf(loop.user_input),
                            !.calls = Append(@, "embed"),
                            !.pc = "search"]
    /\ UNCHANGED << mongo_cache, pipeVars, queryVars >>

\* search_results = vector_search(user_embeddings)
LoopVectorSearch ==
    /\ loop.pc = "search"
    /\ \E res \in MongoVectorSearch(AzureDocs, loop.user_embeddings, MongoSearchLimit) :
          loop' = [loop EXCEPT !.search_results = res,
                               !.calls = Append(@, "search"),
                               !.pc = "complete"]
    /\ UNCHANGED << mongo_cache, pipeVars, queryVars >>

\* completions_results = generate_completion(search_results, user_input), which
\* reads the conversation history itself, then the two print() calls
LoopCompletion ==
    /\ loop.pc = "complete"
    /\ \E h \in GetConversationHistory(mongo_cache, MongoHistoryLimit), response \in Responses :
          loop' = [loop EXCEPT !.messages = MongoMessages(loop.search_results, loop.user_input, h),
                               !.completions_results = response,
                               !.calls = @ \o << "history", "complete" >>,
                               !.printed = << loop.user_input, response.content >>,
                               !.answered = @ + 1,
                               !.pc = "cache"]
    /\ UNCHANGED << mongo_cache, pipeVars, queryVars >>

\* cache_generation(user_input, user_embeddings, completions_results)
LoopCacheGeneration ==
    /\ loop.pc = "cache"
    /\ mongo_cache' = CacheGeneration(mongo_cache, loop.user_input, loop.user_embeddings,
                                      loop.completions_results)
    /\ loop' = [loop EXCEPT !.calls = Append(@, "cache_write"), !.pc = "input"]
    /\ UNCHANGED << pipeVars, queryVars >>

\* one of the four calls raises: nothing catches it and the cell stops
LoopCallFails ==
    /\ loop.pc \in {"embed", "search", "complete", "cache"}
    /\ loop' = [loop EXCEPT !.calls = @ \o (CASE loop.pc = "complete" -> << "history", "complete" >>
                                                [] loop.pc = "cache" -> << "cache_write" >>
                                                [] OTHER -> << loop.pc >>),
                            !.pc = "crashed"]
    /\ UNCHANGED << mongo_cache, pipeVars, queryVars >>

NextLoop ==
    \/ \E text \in LoopInputs : ReadInput(text)
    \/ LoopEmbeddings
    \/ LoopVectorSearch
    \/ LoopCompletion
    \/ LoopCacheGeneration
    \/ LoopCallFails

SpecLoop == Init /\ [][NextLoop]_vars

\* ------------------------------------------ the query functions, called directly
\* the vectors a loaded document may carry: two near the queries, one far away
DocVectors == {10, 20, 197}

\* the num_results a caller may pass
SearchLimits == {1, 2}

\* the similarity_score a caller may pass: the default, and the 0.99 of the
\* first chat_completion
SearchThresholds == {ContextThreshold, CacheHitThreshold}

\* the store as the NoSQL notebook sees it, and as the Mongo notebook sees it
MoviesOf(vs) == [i \in 1..Len(vs) |-> [overview |-> "m", vector |-> vs[i]]]

AzureOf(vs) == [i \in 1..Len(vs) |-> [title |-> "t", content |-> "c", contentVector |-> vs[i]]]

\* the setup notebook's load loop: collection.insert_one(object)
LoadDocument(v) ==
    /\ Len(docs) < MaxDocs
    /\ docs' = Append(docs, v)
    /\ UNCHANGED << ret, embed_call, pipeVars, loopVars >>

\* vector_search(container, vectors, similarity_score, num_results)
CallVectorSearch(q, score, n) ==
    /\ \E res \in VectorSearch(MoviesOf(docs), q, score, n) :
          ret' = [fn |-> "vector_search", query |-> q, threshold |-> score, limit |-> n,
                  stored |-> Len(docs), value |-> res]
    /\ UNCHANGED << docs, embed_call, pipeVars, loopVars >>

\* vector_search(query, num_results) of cosmos-demos
CallMongoVectorSearch(q, n) ==
    /\ \E res \in MongoVectorSearch(AzureOf(docs), q, n) :
          ret' = [fn |-> "mongo_vector_search", query |-> q, threshold |-> 0, limit |-> n,
                  stored |-> Len(docs), value |-> res]
    /\ UNCHANGED << docs, embed_call, pipeVars, loopVars >>

NextSearch ==
    \/ \E v \in DocVectors : LoadDocument(v)
    \/ \E text \in Prompts, score \in SearchThresholds, n \in SearchLimits :
          CallVectorSearch(EmbedOf(text), score, n)
    \/ \E text \in Prompts, n \in SearchLimits : CallMongoVectorSearch(EmbedOf(text), n)

SpecSearch == Init /\ [][NextSearch]_vars

\* ------------------------------------ the history functions, called directly
\* the completions a caller may pass: one, and the 3 the pipelines pass
HistoryLimits == {1, HistoryLimit}

\* cache_response(cache_container, text, generate_embeddings(text), response),
\* the store stamping the item with the second of the previous insert or a
\* later one
StoreExchange(text, response) ==
    /\ Len(cache) < MaxStored
    /\ \E now \in {clock, clock + 1} :
          /\ cache' = CreateItem(cache, ChatDocument(uuids + 1, text, EmbedOf(text), response),
                                 now)
          /\ clock' = now
    /\ uuids' = uuids + 1
    /\ UNCHANGED << started, providerCalls, pc, user_input, locals, result, error, calls,
                    wrote, startLen, probeLen, loopVars, queryVars >>

\* cache_generation(text, generate_embeddings(text), response)
StoreGeneration(text, response) ==
    /\ Len(mongo_cache) < MaxStored
    /\ mongo_cache' = CacheGeneration(mongo_cache, text, EmbedOf(text), response)
    /\ UNCHANGED << loop, pipeVars, queryVars >>

\* get_chat_history(cache_container, n)
CallGetChatHistory(n) ==
    /\ \E h \in GetChatHistory(cache, n) :
          ret' = [fn |-> "get_chat_history", query |-> 0, threshold |-> 0, limit |-> n,
                  stored |-> Len(cache), value |-> h]
    /\ UNCHANGED << docs, embed_call, pipeVars, loopVars >>

\* get_conversation_history(n)
CallGetConversationHistory(n) ==
    /\ \E h \in GetConversationHistory(mongo_cache, n) :
          ret' = [fn |-> "get_conversation_history", query |-> 0, threshold |-> 0,
                  limit |-> n, stored |-> Len(mongo_cache), value |-> h]
    /\ UNCHANGED << docs, embed_call, pipeVars, loopVars >>

NextHistory ==
    \/ \E response \in Responses : StoreExchange("p0", response)
    \/ StoreGeneration("p0", CHOOSE response \in Responses : response.content = "A")
    \/ \E n \in HistoryLimits : CallGetChatHistory(n)
    \/ \E n \in HistoryLimits : CallGetConversationHistory(n)

SpecHistory == Init /\ [][NextHistory]_vars

\* ------------------------- the interactive loop next to the setup notebook
\* the setup notebook's database cell: drop_database when the database is
\* there, then both collections created anew with their vector index.  The
\* data collection is filled again by the load loop that follows; the cache
\* collection starts empty.
SetupDatabase ==
    /\ mongo_cache' = << >>
    /\ UNCHANGED << loop, pipeVars, queryVars >>

NextSetup ==
    \/ NextLoop
    \/ SetupDatabase

SpecSetup == Init /\ [][NextSetup]_vars

\* ------- chat_completion with the two reads of its miss path in either order
\* (no call raises here: a raise ends the request whichever read came first)
\* chat_history = get_chat_history(cache_container, 3), issued before the
\* context search has returned
FetchHistoryEarly(r) ==
    /\ pc[r] = "search"
    /\ "history" \notin Range(calls[r])
    /\ \E h \in GetChatHistory(cache, HistoryLimit) :
          chat_history' = [chat_history EXCEPT ![r] = h]
    /\ calls' = [calls EXCEPT ![r] = Append(@, "history")]
    /\ UNCHANGED << cache, clock, uuids, started, providerCalls, pc, user_input,
                    user_embeddings, cache_results, search_results, messages,
                    completions_results, result, error, wrote, startLen,
                    probeLen, loopVars, queryVars >>

\* the context search overwriting the history already read
SearchMoviesLateClobbers(r) ==
    /\ pc[r] = "search"
    /\ "history" \in Range(calls[r])
    /\ \E res \in VectorSearch(Movies, user_embeddings[r], ContextThreshold, ContextLimit) :
          search_results' = [search_results EXCEPT ![r] = res]
    /\ chat_history' = [chat_history EXCEPT ![r] = << >>]
    /\ calls' = [calls EXCEPT ![r] = Append(@, "search")]
    /\ pc' = [pc EXCEPT ![r] = AfterCall("history", FALSE)]
    /\ UNCHANGED << cache, clock, uuids, started, providerCalls, user_input,
                    user_embeddings, cache_results, messages,
                    completions_results, result, error, wrote, startLen,
                    probeLen, loopVars, queryVars >>

\* search_results = vector_search(movies_container, user_embeddings), returning
\* after the history has been read
SearchMoviesLate(r) ==
    /\ pc[r] = "search"
    /\ "history" \in Range(calls[r])
    /\ \E res \in VectorSearch(Movies, user_embeddings[r], ContextThreshold, ContextLimit) :
          search_results' = [search_results EXCEPT ![r] = res]
    /\ calls' = [calls EXCEPT ![r] = Append(@, "search")]
    /\ pc' = [pc EXCEPT ![r] = AfterCall("history", FALSE)]
    /\ UNCHANGED << cache, clock, uuids, started, providerCalls, user_input,
                    user_embeddings, cache_results, chat_history, messages,
                    completions_results, result, error, wrote, startLen,
                    probeLen, loopVars, queryVars >>

NextAnyOrder ==
    \/ \E r \in Threads, text \in Prompts : GenerateEmbeddings(r, text)
    \/ \E r \in Threads : ProbeCache(r)
    \/ \E r \in Threads : "history" \notin Range(calls[r]) /\ SearchMovies(r)
    \/ \E r \in Threads : FetchHistory(r)
    \/ \E r \in Threads : FetchHistoryEarly(r)
    \/ \E r \in Threads : SearchMoviesLate(r)
    \/ \E r \in Threads : GenerateCompletion(r)
    \/ \E r \in Threads : CacheResponse(r)

SpecAnyOrder == Init /\ [][NextAnyOrder]_vars

\* ----------------------------------------- generate_embeddings, called directly
\* the notebooks that define generate_embeddings
Notebooks == {"setup", "cosmos-demos", "cosmos-nosql-demos"}

\* generate_embeddings retried in every notebook as it is in the setup notebook
MaxAttemptsEverywhere(notebook) == SetupMaxAttempts

\* the attempts one call of generate_embeddings makes at most: the setup
\* notebook decorates it with @retry(..., stop=stop_after_attempt(20)); in
\* cosmos-demos the decorator is commented out and cosmos-nosql-demos has
\* none, so there the one call of embeddings.create is all
MaxAttempts(notebook) == IF notebook = "setup" THEN SetupMaxAttempts ELSE 1

\* generate_embeddings(text) is called
CallGenerateEmbeddings(notebook, text) ==
    /\ embed_call.status \in {"idle", "returned", "raised"}
    /\ embed_call' = [notebook |-> notebook, text |-> text, attempts |-> 0,
                      status |-> "calling", value |-> 0]
    /\ UNCHANGED << docs, ret, pipeVars, loopVars >>

\* openai_client.embeddings.create returns: the function returns
\* embeddings['data'][0]['embedding']
AttemptSucceeds ==
    /\ embed_call.status = "calling"
    /\ embed_call' = [embed_call EXCEPT !.attempts = @ + 1,
                                        !.value = EmbedOf(embed_call.text),
                                        !.status = "returned"]
    /\ UNCHANGED << docs, ret, pipeVars, loopVars >>

\* openai_client.embeddings.create raises: the exception leaves the function,
\* unless the retry decorator has attempts left, waits and calls again
AttemptFails ==
    /\ embed_call.status = "calling"
    /\ embed_call' = [embed_call EXCEPT !.attempts = @ + 1,
                                        !.status = IF embed_call.attempts + 1
                                                        >= MaxAttempts(embed_call.notebook)
                                                     THEN "raised" ELSE "calling"]
    /\ UNCHANGED << docs, ret, pipeVars, loopVars >>

NextEmbed ==
    \/ \E notebook \in Notebooks, text \in Prompts : CallGenerateEmbeddings(notebook, text)
    \/ AttemptSucceeds
    \/ AttemptFails

\* an attempt under way returns or raises; the wait before a retry is finite
\* (wait_random_exponential(min=1, max=200))
SpecEmbed == Init /\ [][NextEmbed]_vars /\ WF_vars(AttemptSucceeds \/ AttemptFails)

\* ============================================================== properties
IsPrefix(s, t) == Len(s) <= Len(t) /\ \A i \in 1..Len(s) : s[i] = t[i]

Count(s, x) == Cardinality({i \in 1..Len(s) : s[i] = x})

\* the request of caller r has probed the cache and the probe has returned
Probed(r) == "probe" \in Range(calls[r]) /\ error[r] # "probe"

\* the exchanges stored when caller r probed whose similarity to its query is
\* above the cache-hit threshold
Matches(r) ==
    {i \in 1..probeLen[r] :
       VectorDistance(cache[i].vector, user_embeddings[r]) > CacheHitThreshold}

\* C1 as stated: a request whose query is above the cache-hit threshold to a
\* stored exchange returns that exchange's completion with cached = true and
\* makes no completion call, for every such exchange.
C1_HitReturnsThatExchange ==
    \A r \in Threads :
       Probed(r) =>
          \A i \in Matches(r) :
             /\ result[r] = [returned |-> TRUE, text |-> cache[i].completion, cached |-> TRUE]
             /\ "complete" \notin Range(calls[r])

\* C1 as amended: when some stored exchange is above the cache-hit threshold
\* the request returns, with cached = true and after embed and probe only, the
\* completion of a stored exchange that is above the threshold and at least
\* as similar to the query as every other stored exchange.
C1_HitReturnsBestMatch ==
    \A r \in Threads :
       (Probed(r) /\ Matches(r) # {}) =>
          /\ pc[r] = "done"
          /\ result[r].returned /\ result[r].cached
          /\ calls[r] = << "embed", "probe" >>
          /\ \E i \in Matches(r) :
                /\ \A j \in Matches(r) :
                      VectorDistance(cache[j].vector, user_embeddings[r])
                         <= VectorDistance(cache[i].vector, user_embeddings[r])
                /\ result[r].text = cache[i].completion

\* a hit on a query that two stored exchanges with different completions match
C1_Witness ==
    \E r \in Threads :
       /\ Probed(r) /\ result[r].cached
       /\ \E i, j \in Matches(r) : cache[i].completion # cache[j].completion

\* C2: a request that missed the cache and returned made exactly one
\* completion call, returned the generated text with cached = false, and
\* inserted exactly one exchange, whose prompt is the input text and whose
\* vector is the embedding computed at the start of the request.
C2_MissWritesOneExchange ==
    \A r \in Threads :
       (pc[r] = "done" /\ Probed(r) /\ cache_results[r] = << >>) =>
          /\ result[r] = [returned |-> TRUE, text |-> completions_results[r].content,
                          cached |-> FALSE]
          /\ Count(calls[r], "complete") = 1
          /\ Cardinality(wrote[r]) = 1
          /\ Cardinality({i \in 1..Len(cache) : cache[i].id \in wrote[r]}) = 1
          /\ \A i \in 1..Len(cache) :
                cache[i].id \in wrote[r] =>
                   /\ i > startLen[r]
                   /\ cache[i].prompt = user_input[r]
                   /\ cache[i].vector = user_embeddings[r]
                   /\ cache[i].vector = EmbedOf(user_input[r])
          /\ started = 1 => Len(cache) = 1

\* a request that went down the miss path and returned, next to an exchange
\* stored by another request
C2_Witness ==
    \E r \in Threads :
       /\ pc[r] = "done" /\ cache_results[r] = << >> /\ result[r].returned
       /\ Len(cache) = 2

\* C3: from an empty cache, when the second request of a run repeats the prompt
\* the first one was answered and stored for, it is a hit: cached = true, the
\* text of the first answer, and one completion call over the two requests.
C3_RepeatIsHit ==
    \A r \in Threads :
       (/\ pc[r] = "done"
        /\ started = 2
        /\ startLen[r] = 1
        /\ cache[1].prompt = user_input[r]) =>
          /\ result[r] = [returned |-> TRUE, text |-> cache[1].completion, cached |-> TRUE]
          /\ providerCalls = 1
          /\ Len(cache) = 1

\* the second request of a run, repeating the first prompt, has returned
C3_Witness ==
    \E r \in Threads :
       /\ pc[r] = "done"
       /\ started = 2
       /\ startLen[r] = 1
       /\ cache[1].prompt = user_input[r]
       /\ result[r].cached

\* C4 as stated: when the cache write raises after the completion succeeded,
\* the caller still gets the generated text with cached = false.
C4_WriteFailureStillAnswers ==
    \A r \in Threads :
       error[r] = "cache_write" => result[r] = MissAnswer(completions_results[r])

\* C5: a request whose embedding call raised has failed with that error, has
\* returned nothing, has made no other call and inserted nothing; and the step
\* that starts a request (the embedding call) changes neither the cache nor
\* the number of completion calls.
C5_State ==
    \A r \in Threads :
       error[r] = "embed" =>
          /\ pc[r] = "failed"
          /\ result[r] = NoAnswer
          /\ calls[r] = << "embed" >>
          /\ wrote[r] = {}

C5_EmbeddingFailureIsClean ==
    /\ []C5_State
    /\ [][started' # started => (cache' = cache /\ providerCalls' = providerCalls)]_vars

\* an embedding failure while the cache holds an exchange
C5_Witness == \E r \in Threads : error[r] = "embed" /\ Len(cache) >= 1

\* C6: a request whose completion call raised has failed with that error, has
\* returned nothing and inserted nothing; and the cache changes only in the
\* step in which a request writes its exchange and returns.
C6_State ==
    \A r \in Threads :
       error[r] = "complete" =>
          /\ pc[r] = "failed"
          /\ result[r] = NoAnswer
          /\ wrote[r] = {}
          /\ calls[r] = << "embed", "probe", "search", "history", "complete" >>

C6_CompletionFailureCachesNothing ==
    /\ []C6_State
    /\ [][cache' # cache =>
            \E r \in Threads :
               /\ pc[r] = "cache_write" /\ pc'[r] = "done" /\ error'[r] = ""
               /\ Len(cache') = Len(cache) + 1]_vars

\* a completion failure while the cache holds an exchange
C6_Witness == \E r \in Threads : error[r] = "complete" /\ Len(cache) >= 1

\* position of a call in CallOrder
CallIndex(call) == CHOOSE k \in 1..Len(CallOrder) : CallOrder[k] = call

\* C7: the calls of a request are always a prefix of embed, probe, search,
\* history, complete, cache_write; a request about to make a call has made
\* exactly the calls before it; a hit stops after the probe; the calls after
\* the probe happen only on a miss, and the cache write only after the
\* completion has returned its response.
C7_CallOrder ==
    \A r \in Threads :
       /\ IsPrefix(calls[r], CallOrder)
       /\ pc[r] \in Range(CallOrder) => Len(calls[r]) + 1 = CallIndex(pc[r])
       /\ result[r].cached => calls[r] = << "embed", "probe" >>
       /\ Len(calls[r]) > 2 => cache_results[r] = << >>
       /\ "cache_write" \in Range(calls[r]) => completions_results[r] \in Responses

\* a request that made all six calls and returned
C7_Witness == \E r \in Threads : pc[r] = "done" /\ calls[r] = CallOrder

\* the calls of one pass of the interactive loop
LoopCallOrder == << "embed", "search", "history", "complete", "cache_write" >>

\* C8 as stated: a prompt entered a second time in a session is served from
\* the cache and no completion call is made for it.
C8_RepeatServedFromCache == loop.asked => "complete" \notin Range(loop.calls)

\* C8 as amended: the interactive loop never probes the cache; every prompt,
\* also one the cache already holds, is embedded, searched, completed and
\* stored, so the cache holds one exchange per answered prompt.
C8_LoopAlwaysGenerates ==
    /\ "probe" \notin Range(loop.calls)
    /\ IsPrefix(loop.calls, LoopCallOrder)
    /\ loop.pc = "input" => Len(mongo_cache) = loop.answered
    /\ loop.pc = "cache" => Len(mongo_cache) + 1 = loop.answered
    /\ (loop.asked /\ loop.pc = "input") =>
          /\ loop.calls = LoopCallOrder
          /\ mongo_cache[Len(mongo_cache)].prompt = loop.user_input
          /\ Cardinality({i \in 1..Len(mongo_cache) :
                            mongo_cache[i].prompt = loop.user_input}) >= 2

\* a repeated prompt has been answered and stored again
C8_Witness == loop.asked /\ loop.pc = "input" /\ loop.calls = LoopCallOrder

\* C9: get_cache on an empty container returns the empty list, and a request
\* whose probe of an empty cache returned goes on to search, history,
\* completion and cache write: it is never a hit, fails only if one of
\* those later calls raises, and has made all six calls when it returns.
C9_EmptyCacheIsMiss ==
    /\ \A p \in Prompts :
          GetCache(<< >>, EmbedOf(p), CacheHitThreshold, CacheProbeLimit) = { << >> }
    /\ \A r \in Threads :
          (Probed(r) /\ probeLen[r] = 0) =>
             /\ cache_results[r] = << >>
             /\ ~result[r].cached
             /\ pc[r] \in {"search", "history", "complete", "cache_write", "done", "failed"}
             /\ pc[r] = "failed" => error[r] \in {"search", "history", "complete", "cache_write"}
             /\ pc[r] = "done" => calls[r] = CallOrder

\* a request that probed an empty cache has returned
C9_Witness == \E r \in Threads : Probed(r) /\ probeLen[r] = 0 /\ pc[r] = "done"

\* C10: a request is answered from the cache only with an exchange stored at
\* the probe whose similarity is strictly above the cache-hit threshold; when
\* every stored exchange is at or below the threshold there is no hit; and
\* the cache-hit threshold is above the context-search threshold.
C10_HitOnlyAboveThreshold ==
    /\ CacheHitThreshold > ContextThreshold
    /\ \A r \in Threads :
          /\ result[r].cached =>
                /\ Len(cache_results[r]) = 1
                /\ \E i \in Matches(r) :
                      /\ cache_results[r][1] = cache[i]
                      /\ result[r].text = cache[i].completion
          /\ (Probed(r) /\ Matches(r) = {}) =>
                /\ cache_results[r] = << >>
                /\ ~result[r].cached

\* a probe that found an exchange exactly on the threshold, and no hit
C10_Witness ==
    \E r \in Threads :
       /\ Probed(r)
       /\ \E i \in 1..probeLen[r] :
             VectorDistance(cache[i].vector, user_embeddings[r]) = CacheHitThreshold
       /\ ~result[r].cached

\* C11: the list a context search returns has at most num_results hits, every
\* hit is above the similarity threshold passed, and the similarity scores
\* never increase from one hit to the next; this for both notebooks, every
\* store content and every query.
C11_SearchBoundedAndRanked ==
    /\ ret.fn = "vector_search" =>
          /\ Len(ret.value) <= ret.limit
          /\ \A k \in 1..Len(ret.value) : ret.value[k].SimilarityScore > ret.threshold
          /\ \A k \in 1..(Len(ret.value) - 1) :
                ret.value[k].SimilarityScore >= ret.value[k + 1].SimilarityScore
    /\ ret.fn = "mongo_vector_search" =>
          /\ Len(ret.value) <= ret.limit
          /\ \A k \in 1..(Len(ret.value) - 1) :
                ret.value[k].similarityScore >= ret.value[k + 1].similarityScore

\* a search of three matching documents, cut to two hits of different scores
C11_Witness ==
    /\ ret.fn = "vector_search"
    /\ ret.stored = 3
    /\ Len(ret.value) = 2
    /\ ret.limit = 2
    /\ ret.value[1].SimilarityScore > ret.value[2].SimilarityScore

\* the n most recently created of the first k items of a list, newest first
Newest(items, k, n) == [i \in 1..(IF n < k THEN n ELSE k) |-> items[k - i + 1]]

\* C12 as stated: history retrieval returns at most N entries, they are the N
\* most recently created cache entries, newest first, also when several
\* entries were created within the same timestamp unit.
C12_HistoryNewestFirst ==
    /\ ret.fn = "get_chat_history" =>
          /\ Len(ret.value) <= ret.limit
          /\ ret.value = Newest(cache, ret.stored, ret.limit)
    /\ ret.fn = "get_conversation_history" =>
          /\ Len(ret.value) <= ret.limit
          /\ \A k \in 1..Len(ret.value) :
                ret.value[k].oid = Newest(mongo_cache, ret.stored, ret.limit)[k].oid

\* the payload m is: the system instruction, then one message per entry of
\* history h, then the user's query, then one message per context document of
\* the contents in d
Ordered(m, instruction, h, query, d) ==
    /\ Len(m) = 1 + Len(h) + 1 + Len(d)
    /\ m[1] = [role |-> "system", content |-> instruction]
    /\ \A i \in 1..Len(h) : m[1 + i].content = h[i].prompt \o " " \o h[i].completion
    /\ m[Len(h) + 2] = [role |-> "user", content |-> query]
    /\ \A i \in 1..Len(d) : m[Len(h) + 2 + i] = [role |-> "system", content |-> d[i]]
    /\ Cardinality({i \in 1..Len(m) : m[i].content = instruction}) = 1
    /\ Cardinality({i \in 1..Len(m) : m[i].content = query}) = 1

\* C13: the payload sent to the Completion Provider is the system instruction
\* first, then one message per history entry, then the one user message with
\* the current query, then one message per retrieved context document; this
\* for every request of the pipeline and for generate_completion of
\* cosmos-demos on a one-entry history.
C13_MessageOrder ==
    /\ \A r \in Threads :
          messages[r] # << >> =>
             Ordered(messages[r], SystemPrompt, chat_history[r], user_input[r],
                     [i \in 1..Len(search_results[r]) |->
                        JsonDumps(search_results[r][i].document)])
    /\ \A text \in Prompts :
          \A res \in MongoVectorSearch(AzureDocs, EmbedOf(text), MongoSearchLimit) :
             Ordered(MongoMessages(res, text, << [prompt |-> "p1", completion |-> "A"] >>),
                     MongoSystemPrompt, << [prompt |-> "p1", completion |-> "A"] >>, text,
                     [i \in 1..Len(res) |-> res[i].document.content])

\* a payload sent with two history entries and several context documents
C13_Witness ==
    \E r \in Threads :
       /\ messages[r] # << >>
       /\ Len(chat_history[r]) = 2
       /\ Len(search_results[r]) >= 2

\* C14: the identifiers in the cache are pairwise distinct in every state;
\* the step in which a request writes its exchange adds exactly one entry,
\* after all those already stored and with an identifier none of them has,
\* also when an entry with the same prompt is stored already; and the cache
\* changes in no other way.
C14_StateIds ==
    \A i, j \in 1..Len(cache) : i # j => cache[i].id # cache[j].id

C14_Step ==
    /\ cache' # cache =>
          /\ Len(cache') = Len(cache) + 1
          /\ SubSeq(cache', 1, Len(cache)) = cache
          /\ \A i \in 1..Len(cache) : cache[i].id # cache'[Len(cache')].id
    /\ \A r \in Threads :
          (pc[r] = "cache_write" /\ pc'[r] = "done") =>
             /\ Len(cache') = Len(cache) + 1
             /\ cache'[Len(cache')].prompt = user_input[r]

C14_FreshIdNoDedup == []C14_StateIds /\ [][C14_Step]_vars

\* two stored exchanges of the same prompt, written by two requests
C14_Witness ==
    \E i, j \in 1..Len(cache) :
       /\ i # j
       /\ cache[i].prompt = cache[j].prompt
       /\ cache[i].id # cache[j].id
       /\ \A r \in Threads : pc[r] = "done" /\ wrote[r] # {}

\* every entry of the Mongo cache is still there after the step, in its place
\* and with its field values
CacheKept ==
    /\ Len(mongo_cache') >= Len(mongo_cache)
    /\ \A i \in 1..Len(mongo_cache) : mongo_cache'[i] = mongo_cache[i]

C16_SearchFailureAborts ==
    \A r \in Threads :
       /\ error[r] = "search" =>
             /\ pc[r] = "failed"
             /\ result[r] = NoAnswer
             /\ calls[r] = << "embed", "probe", "search" >>
             /\ messages[r] = << >>
             /\ completions_results[r] = NoResponse
             /\ wrote[r] = {}
       /\ "complete" \in Range(calls[r]) =>
             search_results[r] \in VectorSearch(Movies, user_embeddings[r],
                                               ContextThreshold, ContextLimit)

\* a context search failed while the cache holds an exchange
C16_Witness == \E r \in Threads : error[r] = "search" /\ Len(cache) >= 1

\* everything caller q holds inside chat_completion
Frame(q) ==
    << pc[q], user_input[q], user_embeddings[q], cache_results[q], search_results[q],
       chat_history[q], messages[q], completions_results[q], result[q], error[q],
       calls[q], wrote[q], startLen[q], probeLen[q] >>

\* C17: what a request holds comes from its own input and from the stores:
\* its embedding is that of its own text, its probe and history rows are
\* cache entries, its payload is built from its own locals, and the text it
\* returns is the completion of an entry stored when it probed (a hit) or
\* the completion generated for it (a miss); and every step changes the
\* frame of one caller only.
C17_State ==
    \A r \in Threads :
       /\ Len(calls[r]) >= 2 => user_embeddings[r] = EmbedOf(user_input[r])
       /\ \A k \in 1..Len(cache_results[r]) : cache_results[r][k] \in Range(cache)
       /\ \A k \in 1..Len(chat_history[r]) : chat_history[r][k] \in Range(cache)
       /\ messages[r] # << >> =>
             messages[r] = Messages(user_input[r], search_results[r], chat_history[r])
       /\ result[r].returned =>
             IF result[r].cached
             THEN \E i \in 1..probeLen[r] : result[r].text = cache[i].completion
             ELSE /\ "complete" \in Range(calls[r])
                  /\ result[r].text = completions_results[r].content
                  /\ \E i \in 1..Len(cache) :
                        /\ cache[i].id \in wrote[r]
                        /\ cache[i].completion = result[r].text

C17_Step == \E r \in Threads : \A q \in Threads \ {r} : Frame(q)' = Frame(q)

IsInteger(v, n) == ToString(v) = ToString(n)

\* the response of the Completion Provider a stored exchange came from
ResponseOf(completion) == CHOOSE response \in Responses : response.content = completion

\* C18 as stated: the three token fields of every stored exchange are the
\* non-negative integers the Completion Provider reported as usage.
C18_TokensAreIntegers ==
    \A i \in 1..Len(cache) :
       /\ IsInteger(cache[i].promptTokens, ResponseOf(cache[i].completion).usage.prompt_tokens)
       /\ IsInteger(cache[i].completionTokens,
                    ResponseOf(cache[i].completion).usage.completion_tokens)
       /\ IsInteger(cache[i].totalTokens, ResponseOf(cache[i].completion).usage.total_tokens)

\* the stored value v is the string of the decimal digits of n
IsDecimalString(v, n) == n >= 0 /\ v = ToString(n)

\* C18 as amended: the three token fields of every stored exchange are the
\* decimal strings, str(), of the non-negative integers the Completion
\* Provider reported as usage; in both notebooks.
C18_TokensAreDecimalStrings ==
    /\ \A i \in 1..Len(cache) :
          LET usage == ResponseOf(cache[i].completion).usage
          IN  /\ IsDecimalString(cache[i].promptTokens, usage.prompt_tokens)
              /\ IsDecimalString(cache[i].completionTokens, usage.completion_tokens)
              /\ IsDecimalString(cache[i].totalTokens, usage.total_tokens)
    /\ \A response \in Responses :
          LET stored == CacheGeneration(<< >>, "p0", EmbedOf("p0"), response)[1]
          IN  /\ IsDecimalString(stored.promptTokens, response.usage.prompt_tokens)
              /\ IsDecimalString(stored.completionTokens, response.usage.completion_tokens)
              /\ IsDecimalString(stored.totalTokens, response.usage.total_tokens)

\* one stored exchange with two-digit counts and one with a zero count
C18_Witness ==
    \E i, j \in 1..Len(cache) :
       /\ cache[i].promptTokens = "12" /\ cache[i].totalTokens = "19"
       /\ cache[j].completionTokens = "0"

\* C19: whenever a caller holds a miss-path answer, the cache holds the entry
\* of that request, written after the request began, with its prompt, its
\* embedding and the text returned; and a request that has not yet written
\* holds no answer.
C19_WrittenBeforeReturn ==
    \A r \in Threads :
       /\ (result[r].returned /\ ~result[r].cached) =>
             \E i \in (startLen[r] + 1)..Len(cache) :
                /\ cache[i].id \in wrote[r]
                /\ cache[i].prompt = user_input[r]
                /\ cache[i].vector = user_embeddings[r]
                /\ cache[i].completion = result[r].text
       /\ pc[r] \in {"search", "history", "complete", "cache_write"} => ~result[r].returned
       /\ error[r] # "" => ~result[r].returned

\* a caller holds a miss-path answer and another request has written since
C19_Witness ==
    \E r \in Threads :
       /\ result[r].returned /\ ~result[r].cached
       /\ \E i \in 1..Len(cache) : cache[i].id \in wrote[r] /\ i < Len(cache)

\* the histories get_chat_history may have returned to caller r: those of the
\* cache as it stood at some moment since r probed it
HistoriesSince(r) ==
    UNION { GetChatHistory(SubSeq(cache, 1, k), HistoryLimit) : k \in probeLen[r]..Len(cache) }

\* C20: with the context search and the history fetch issued in either order
\* and interleaved with other requests, a request sends the payload the
\* sequential order sends: built from its own query, a result of the context
\* search for its embedding and a history of the cache as it stood when read;
\* and it writes the same entry to the cache.
C20_ReadsIndependent ==
    \A r \in Threads :
       /\ "complete" \in Range(calls[r]) =>
             /\ search_results[r] \in VectorSearch(Movies, user_embeddings[r],
                                                  ContextThreshold, ContextLimit)
             /\ chat_history[r] \in HistoriesSince(r)
             /\ messages[r] = Messages(user_input[r], search_results[r], chat_history[r])
       /\ \A i \in 1..Len(cache) :
             cache[i].id \in wrote[r] =>
                \E now \in 0..clock :
                   cache[i] = ChatDocument(cache[i].id, user_input[r], user_embeddings[r],
                                           completions_results[r]) @@ [ts |-> now]

\* a request that read a non-empty history first and searched second has
\* written its exchange and returned
C20_Witness ==
    \E r \in Threads :
       /\ pc[r] = "done"
       /\ calls[r] = << "embed", "probe", "history", "search", "complete", "cache_write" >>
       /\ Len(chat_history[r]) >= 1

\* C21 as stated: generate_embeddings of every notebook retries a failed
\* attempt, so an error is surfaced only after more than one attempt.
C21_EveryNotebookRetries == embed_call.status = "raised" => embed_call.attempts > 1

\* C21 as amended: generate_embeddings of the setup notebook makes at most 20
\* attempts and raises only after the 20th has failed; generate_embeddings of
\* cosmos-demos and of cosmos-nosql-demos makes one attempt and raises when it
\* fails; each returns the vector of its first successful attempt, and every
\* call returns or raises in the end.
C21_State ==
    /\ embed_call.notebook = "setup" =>
          /\ embed_call.attempts <= 20
          /\ embed_call.status = "raised" => embed_call.attempts = 20
    /\ embed_call.notebook \in {"cosmos-demos", "cosmos-nosql-demos"} =>
          /\ embed_call.attempts <= 1
          /\ embed_call.status = "raised" => embed_call.attempts = 1
    /\ embed_call.status = "returned" =>
          /\ embed_call.attempts >= 1
          /\ embed_call.value = EmbedOf(embed_call.text)

C21_Step ==
    embed_call.status = "returned" =>
       embed_call'.status = "calling" /\ embed_call'.attempts = 0

C21_RetryOnlyInSetup ==
    /\ []C21_State
    /\ [][C21_Step]_vars
    /\ (embed_call.status = "calling") ~> (embed_call.status \in {"returned", "raised"})

\* the setup notebook's generate_embeddings has raised after its last attempt
C21_Witness ==
    /\ embed_call.notebook = "setup"
    /\ embed_call.status = "raised"
    /\ embed_call.attempts = SetupMaxAttempts

\* C22: a request answered from the cache has made one embed and one probe
\* call and nothing else: no search results, no history, no payload, no
\* completion, nothing written; and the two steps it consists of, the embed
\* and the probe, leave the cache, the store clock and the number of
\* completion calls as they were.
C22_State ==
    \A r \in Threads :
       result[r].cached =>
          /\ pc[r] = "done"
          /\ calls[r] = << "embed", "probe" >>
          /\ search_results[r] = << >>
          /\ chat_history[r] = << >>
          /\ messages[r] = << >>
          /\ completions_results[r] = NoResponse
          /\ wrote[r] = {}

C22_Step ==
    \A r \in Threads :
       (calls'[r] # calls[r] /\ Len(calls'[r]) <= 2) =>
          /\ cache' = cache
          /\ clock' = clock
          /\ providerCalls' = providerCalls

C22_HitTouchesNothing == []C22_State /\ [][C22_Step]_vars

\* a request was answered from a cache of two exchanges, both still there
C22_Witness ==
    \E r \in Threads :
       /\ result[r].cached
       /\ probeLen[r] = 2
       /\ Len(cache) = 2

C24_LoopEndsOnEnd ==
    /\ loop.pc = "ended" <=> loop.user_input \in {"end", "End", "END"}
    /\ loop.pc = "ended" =>
          /\ loop.calls = << >>
          /\ Len(mongo_cache) = loop.answered
          /\ \A i \in 1..Len(mongo_cache) : mongo_cache[i].prompt \in Prompts
    /\ loop.pc = "cache" =>
          /\ loop.printed = << loop.user_input, loop.completions_results.content >>
          /\ Len(mongo_cache) + 1 = loop.answered
    /\ (loop.pc = "input" /\ loop.inputs > 0) =>
          /\ loop.calls = LoopCallOrder
          /\ Len(mongo_cache) = loop.answered
          /\ loop.answered = loop.inputs
          /\ mongo_cache[Len(mongo_cache)].prompt = loop.user_input
          /\ mongo_cache[Len(mongo_cache)].completion = loop.printed[2]

\* the loop has ended on "END" after two answered prompts
C24_Witness ==
    /\ loop.pc = "ended"
    /\ loop.user_input = "END"
    /\ loop.answered = 2
    /\ Len(mongo_cache) = 2

====
